---- MODULE Spec2Model ----
(***************************************************************************)
(* A model of fatalloc's registry of extant allocations (src/allocmap.rs)  *)
(* and of the allocator shim that drives it (src/lib.rs).                  *)
(*                                                                         *)
(* A machine word (usize, AtomicUsize) is modelled as the set of the       *)
(* positions of its 1 bits, so that 64-bit words keep their width.         *)
(***************************************************************************)
EXTENDS Integers, Sequences, FiniteSets, TLC

\* ------------------------------------------------------------ constants

\* const LEAF_LEN: usize = 1 << 23
LEAF_LEN == 8388608

\* usize::BITS on the 64-bit targets the crate is built for
USIZE_BITS == 64

\* size_of::<Option<(usize, &'static mut Leaf)>>(), the size of a slot of the
\* slice behind Root::leaves: a usize and a reference, whose null value is None
ENTRY_SIZE == 16

\* const MIN_MARGIN: usize = size_of::<usize>() * 16
MIN_MARGIN == 128

\* const MIN_ALIGN: usize = align_of::<usize>()
MIN_ALIGN == 8

\* const KEY_MARGIN: usize = 0x123456789abcdef, as the positions of its 1 bits
KEY_MARGIN ==
    {0, 1, 2, 3, 5, 6, 7, 8, 10, 11, 14, 15, 16, 17, 19, 21, 23, 24, 27, 31, 32, 33,
     34, 37, 38, 40, 42, 46, 48, 49, 53, 56}

\* const KEY_CANARY: usize = 0x23435243643547a
KEY_CANARY ==
    {1, 3, 4, 5, 6, 10, 12, 14, 16, 17, 22, 25, 26, 28, 29, 34, 37, 40, 42, 44, 45,
     50, 52, 53, 57}

\* const KEY_SIZE: usize = 0x1ae9deaf526c83d
KEY_SIZE ==
    {0, 2, 3, 4, 5, 11, 14, 15, 17, 18, 21, 24, 26, 28, 29, 30, 31, 33, 35, 37, 38,
     39, 40, 42, 43, 44, 47, 49, 50, 51, 53, 55, 56}

\* ------------------------------------------------------------ bounds

\* number of threads calling into the registry
NumThreads == 2

\* number of calls of the registry's operations a run of Spec makes
MaxCalls == 4

\* number of root segments the threads of SpecGrow walk over
NumSegs == 18

\* number of calls of the registry's operations a run of SpecFair makes
FairCalls == 3

Threads == 1..NumThreads

\* The keys the threads of Spec pass: 0 and 1 share a bitmap word, LEAF_LEN is
\* the first key of the next Leaf.
Keys == {0, 1, LEAF_LEN}

\* The keys the threads of SpecFair pass
FairKeys == {0, LEAF_LEN}

\* The keys each thread of SpecS5 sets and then clears, in this order
S5Keys == <<0, 1>>

\* SpecGrow visits the root segments (start + j * stride) % NumSegs, j = 0, 1, ..:
\* in ascending order, in descending order, and scattered
GrowStarts == {0, NumSegs \div 2}
GrowStrides == {1, NumSegs - 1, 7}

\* The i-th key of a walk: every segment is visited twice, with two keys of the
\* first word of its Leaf, so that two threads can meet on an absent segment
GrowKey(w, i) ==
    ((w.start + (i \div 2) * w.stride) % NumSegs) * LEAF_LEN + (i % 2)

\* The blocks the wrapped allocator can hand out, by their first address; a
\* block is 4096 bytes long
OuterPtrs == {4096, 8192}
Block(o) == o..(o + 4095)

\* The layouts the threads of SpecShim ask for
Layouts == {[size |-> 8, align |-> 8]}

\* The pointers the threads of SpecShim pass to deallocate: the user pointers of
\* the two blocks, an aligned address that allocate never returns, and a
\* misaligned one
PtrInputs == {4224, 8320, 4232, 4225}

\* The sizes the threads of SpecFat pass to reallocate. A size of 2^63 or more
\* is held as the negative number that is its two's complement reading: -1 is
\* usize::MAX.
ReallocSizes == {16, -1}

\* The pointers the threads of SpecFat pass to reallocate and to
\* allocation_usable_size
FatPtrs == {4224, 8320, 4225}

\* The addresses whose metadata the shim may read or write: the aligned
\* pointers it is passed, and the user pointers of the blocks for the margins
\* MIN_MARGIN and 2 * MIN_MARGIN
UserAddrs ==
    {p \in PtrInputs : p % MIN_ALIGN = 0}
        \cup {o + m : o \in OuterPtrs, m \in {MIN_MARGIN, 2 * MIN_MARGIN}}

AllKeys == Keys \cup {S5Keys[j] : j \in 1..Len(S5Keys)}
                \cup {s * LEAF_LEN + b : s \in 0..(NumSegs - 1), b \in {0, 1}}
                \cup {p \div MIN_ALIGN : p \in UserAddrs}

\* ------------------------------------------------------------ words

BitIdx == 0..(USIZE_BITS - 1)

\* `i as u32`: the low 32 bits of i, from its two 16-bit halves
AsU32(i) == ((i \div 65536) % 65536) * 65536 + (i % 65536)

\* AllocMap::expand_index
expand_index(i) ==
    LET bit       == AsU32(i) % USIZE_BITS
        bitmap_i0 == i \div USIZE_BITS
        root_i    == bitmap_i0 \div (LEAF_LEN \div USIZE_BITS)
        bitmap_i  == bitmap_i0 % (LEAF_LEN \div USIZE_BITS)
    IN  <<root_i, bitmap_i, bit>>

\* `1usize << bit`
Mask(bit) == {bit}

\* A fetch_xor in the place of the fetch_or
FetchOr_xor(word, mask) == (word \ mask) \cup (mask \ word)

\* AtomicUsize::fetch_or: the new value of the word
FetchOr(word, mask) == word \cup mask

\* AtomicUsize::fetch_nand: the new value of the word, !(old & mask)
FetchNand(word, mask) == BitIdx \ (word \cap mask)

\* `(word & mask) != 0`
TestMask(word, mask) == (word \cap mask) # {}

\* The words of a Leaf's bitmap that the model's keys can touch; every other
\* word of a Leaf stays zero.
WordIdx == {expand_index(k)[2] : k \in AllKeys}

\* A Leaf as alloc_zeroed::<Leaf>(1) returns it
ZeroLeaf == [w \in WordIdx |-> {}]

\* ------------------------------------------------------------ state

VARIABLES
    leaves_some,  \* Root::leaves is Some(..)
    leaves,       \* the slice behind Root::leaves: a sequence of slots
    num_leaves,   \* Root::num_leaves
    leafmem,      \* the Leaves allocated so far; a Leaf is named by its index
    munmap_calls, \* the (capacity of the slice, length argument) of each munmap call
    readers,      \* the threads holding the rwlock in shared mode
    writer,       \* the thread holding the rwlock exclusively, or 0
    pc,           \* each thread's position
    arg,          \* each thread's key `i`
    bitmap,       \* each thread's `bitmap`: the Leaf of the word it refers to, or 0
    ret,          \* the value the thread's last operation returned
    calls,        \* the number of operations called so far
    prog,         \* each thread's position in the program of SpecS5
    walk,         \* the walk over the root segments that SpecGrow's threads share
    probe,        \* the two keys SpecKeys applies expand_index to, and the results
    present,      \* history: the keys a set has marked and no test_and_clear has cleared since
    won,          \* history: the keys a test_and_clear returned true for since their last set
    cleared,      \* history: the keys whose latest operation was a test_and_clear returning true
    any_set,      \* history: set has been called
    set_segs,     \* history: the root segments of the keys a set has returned for
    obs,          \* history: what each thread's operation saw when it took effect
    cont,         \* where each thread goes on when the registry's operation returns
    sh,           \* each thread's locals in the shim
    heap_live,    \* the blocks the wrapped allocator has handed out and not taken back
    mem,          \* the metadata words and the canary in front of each user pointer
    live_user,    \* history: the user pointers allocated and not forwarded since
    bad_forward   \* history: a pointer outside live_user was forwarded

root == <<leaves_some, leaves, num_leaves, leafmem, munmap_calls>>
lock == <<readers, writer>>
drv  == <<calls, prog, walk, probe>>
hist == <<present, won, cleared, any_set, set_segs>>
heap == <<sh, heap_live, mem, live_user, bad_forward>>
shim == <<cont, sh, heap_live, mem, live_user, bad_forward>>
vars == <<leaves_some, leaves, num_leaves, leafmem, munmap_calls, readers, writer,
          pc, arg, bitmap, ret, calls, prog, walk, probe, present, won, cleared,
          any_set, set_segs, obs, cont, sh, heap_live, mem, live_user, bad_forward>>

\* An empty slot of the slice (None) and a populated one (Some((root_i, leaf)))
NoneSlot == [some |-> FALSE, root_i |-> 0, leaf |-> 0]
SomeSlot(root_i, leaf) == [some |-> TRUE, root_i |-> root_i, leaf |-> leaf]

NoObs == [present |-> FALSE, won |-> FALSE, after_clear |-> FALSE, bit |-> FALSE]

\* A thread's locals in the shim: the layout asked for, the user pointer, and
\* the AllocInfo
NoLocals == [size |-> 0, align |-> 0, ptr |-> 0, outer |-> 0, margin |-> 0]

\* Memory the shim has not written: reading it yields any value
Uninit == [init |-> FALSE, margin |-> {}, size |-> {}, canary |-> {}]

\* AllocMap::INIT
INIT ==
    /\ leaves_some = FALSE
    /\ leaves = <<>>
    /\ num_leaves = 0
    /\ leafmem = <<>>
    /\ munmap_calls = <<>>
    /\ readers = {}
    /\ writer = 0

\* The threads are idle and nothing has been called
InitThreads ==
    /\ pc = [t \in Threads |-> "idle"]
    /\ arg = [t \in Threads |-> 0]
    /\ bitmap = [t \in Threads |-> 0]
    /\ ret = [t \in Threads |-> FALSE]
    /\ calls = 0
    /\ prog = [t \in Threads |-> 0]
    /\ present = {}
    /\ won = {}
    /\ cleared = {}
    /\ any_set = FALSE
    /\ set_segs = {}
    /\ obs = [t \in Threads |-> NoObs]
    /\ cont = [t \in Threads |-> "idle"]
    /\ sh = [t \in Threads |-> NoLocals]
    /\ heap_live = {}
    /\ mem = [p \in UserAddrs |-> Uninit]
    /\ live_user = {}
    /\ bad_forward = FALSE

NoWalk == [start |-> 0, stride |-> 1, i |-> 0]

NoProbe == [k1 |-> {}, k2 |-> {}, e1 |-> <<>>, e2 |-> <<>>, n |-> 0]

Init ==
    /\ INIT
    /\ InitThreads
    /\ walk = NoWalk
    /\ probe = NoProbe

\* ------------------------------------------------------------ Root

Max(a, b) == IF a >= b THEN a ELSE b

\* slice::binary_search_by_key over slots [left, right) of the slice s, by the
\* root_i of each slot; indices are 0-based as in the code. found: Ok(idx),
\* otherwise Err(idx), idx being the place to insert at.
RECURSIVE binary_search_by_key(_, _, _, _)
binary_search_by_key(s, key, left, right) ==
    IF left >= right
    THEN [found |-> FALSE, idx |-> left]
    ELSE LET mid == left + ((right - left) \div 2)
             k   == s[mid + 1].root_i
         IN  IF k = key THEN [found |-> TRUE, idx |-> mid]
             ELSE IF k < key THEN binary_search_by_key(s, key, mid + 1, right)
             ELSE binary_search_by_key(s, key, left, mid)

\* Root::get_bitmap: the Leaf holding the word, or 0 for None
get_bitmap(root_i) ==
    IF ~leaves_some THEN 0
    ELSE LET r == binary_search_by_key(leaves, root_i, 0, num_leaves)
         IN  IF r.found THEN leaves[r.idx + 1].leaf ELSE 0

\* The part of the slice is left as it is
rotate_none(s) == s

\* The part of the slice is rotated to the left
rotate_left_1(s) ==
    IF Len(s) = 0 THEN s ELSE SubSeq(s, 2, Len(s)) \o <<s[1]>>

\* slice::rotate_right(1)
rotate_right_1(s) ==
    IF Len(s) = 0 THEN s ELSE <<s[Len(s)]>> \o SubSeq(s, 1, Len(s) - 1)

\* The slice grows by eight slots instead of doubling
new_cap_plus8(len) == Max(len, 8) + 8

\* The capacity of the slice that replaces a full one
new_cap(len) == Max(len, 8) * 2

\* Root::get_or_insert_bitmap, the Err(insert_at_leaf_i) arm: the slice grows if
\* it is full, a zeroed Leaf is allocated and put into slot insert_at_leaf_i.
\* The result is the Leaf and the Root left behind.
insert_bitmap(root_i, insert_at_leaf_i) ==
    LET full  == num_leaves = Len(leaves)
        grown == IF full
                 THEN [j \in 1..new_cap(Len(leaves)) |->
                          IF j <= Len(leaves) THEN leaves[j] ELSE NoneSlot]
                 ELSE leaves
        unmap == IF full
                 THEN Append(munmap_calls, [cap |-> Len(leaves), len |-> Len(leaves)])
                 ELSE munmap_calls
        leaf  == Len(leafmem) + 1
        n1    == num_leaves + 1
        part  == [rotate_right_1(SubSeq(grown, insert_at_leaf_i + 1, n1))
                     EXCEPT ![1] = SomeSlot(root_i, leaf)]
    IN  [leaves |-> SubSeq(grown, 1, insert_at_leaf_i) \o part
                       \o SubSeq(grown, n1 + 1, Len(grown)),
         num_leaves |-> n1,
         leafmem |-> Append(leafmem, ZeroLeaf),
         munmap_calls |-> unmap,
         leaf |-> leaf]

\* The exclusive path inserts a Leaf without looking at what the search found
get_or_insert_bitmap_blind(root_i) ==
    insert_bitmap(root_i, binary_search_by_key(leaves, root_i, 0, num_leaves).idx)

\* Root::get_or_insert_bitmap: the Leaf of the word a thread will operate on and
\* the Root it leaves behind
get_or_insert_bitmap(root_i) ==
    LET r == binary_search_by_key(leaves, root_i, 0, num_leaves)
    IN  IF r.found
        THEN [leaves |-> leaves, num_leaves |-> num_leaves, leafmem |-> leafmem,
              munmap_calls |-> munmap_calls, leaf |-> leaves[r.idx + 1].leaf]
        ELSE insert_bitmap(root_i, r.idx)

\* ------------------------------------------------------------ RwLock

\* RwLock::read: pthread_rwlock_rdlock
rdlock(t) ==
    /\ writer = 0
    /\ readers' = readers \cup {t}
    /\ UNCHANGED writer

\* The exclusive hold is granted without waiting for the other holders
wrlock_nowait(t) ==
    /\ writer' = t
    /\ UNCHANGED readers

\* RwLock::write: pthread_rwlock_wrlock
wrlock(t) ==
    /\ writer = 0
    /\ readers = {}
    /\ writer' = t
    /\ UNCHANGED readers

\* Guard::drop: pthread_rwlock_unlock
unlock(t) ==
    IF writer = t
    THEN writer' = 0 /\ UNCHANGED readers
    ELSE readers' = readers \ {t} /\ UNCHANGED writer

\* ------------------------------------------------------------ history

\* What get(k) returns in the current state
BitVal(k) ==
    LET e == expand_index(k)
        b == get_bitmap(e[1])
    IN  b # 0 /\ TestMask(leafmem[b][e[2]], Mask(e[3]))

\* What the operation of thread t on key k sees where it takes effect.
\* after_clear: the operation was called when the latest operation on k was a
\* test_and_clear that returned true and no call was in progress, and no
\* operation on k has taken effect since.
Observe(t, k) ==
    [present |-> k \in present, won |-> k \in won,
     after_clear |-> obs[t].after_clear /\ k \in cleared,
     bit |-> BitVal(k)]

\* The operation returns to its caller: the call's locals are dropped, and the
\* returned value stays with a caller in the shim
Return(t) ==
    /\ pc' = [pc EXCEPT ![t] = cont[t]]
    /\ arg' = [arg EXCEPT ![t] = 0]
    /\ bitmap' = [bitmap EXCEPT ![t] = 0]
    /\ ret' = [ret EXCEPT ![t] = IF cont[t] = "idle" THEN FALSE ELSE ret[t]]
    /\ obs' = [obs EXCEPT ![t] = NoObs]

\* ------------------------------------------------------------ AllocMap::get

\* A caller passes key k to get and goes on at c when get returns
invoke_get(t, k, c) ==
    /\ cont' = [cont EXCEPT ![t] = c]
    /\ arg' = [arg EXCEPT ![t] = k]
    /\ pc' = [pc EXCEPT ![t] = "get_lookup"]
    /\ obs' = [obs EXCEPT ![t] =
                  [NoObs EXCEPT !.after_clear =
                      k \in cleared /\ \A u \in Threads : pc[u] = "idle"]]
    /\ UNCHANGED <<root, lock, bitmap, ret, hist>>

CallGet(t, k) ==
    /\ calls < MaxCalls
    /\ calls' = calls + 1
    /\ pc[t] = "idle"
    /\ invoke_get(t, k, "idle")
    /\ UNCHANGED <<prog, walk, probe, heap>>

\* get answers true where the Leaf is absent
get_lookup_absent_true(t) ==
    /\ pc[t] = "get_lookup"
    /\ rdlock(t)
    /\ LET b == get_bitmap(expand_index(arg[t])[1])
       IN  IF b = 0
           THEN /\ ret' = [ret EXCEPT ![t] = TRUE]
                /\ obs' = [obs EXCEPT ![t] = Observe(t, arg[t])]
                /\ cleared' = cleared \ {arg[t]}
                /\ pc' = [pc EXCEPT ![t] = "get_unlock"]
                /\ UNCHANGED <<bitmap, present, won, any_set, set_segs>>
           ELSE /\ bitmap' = [bitmap EXCEPT ![t] = b]
                /\ pc' = [pc EXCEPT ![t] = "get_load"]
                /\ UNCHANGED <<ret, hist, obs>>
    /\ UNCHANGED <<root, arg, drv, shim>>

\* root.read() and get_bitmap; on None get returns false
get_lookup(t) ==
    /\ pc[t] = "get_lookup"
    /\ rdlock(t)
    /\ LET b == get_bitmap(expand_index(arg[t])[1])
       IN  IF b = 0
           THEN /\ ret' = [ret EXCEPT ![t] = FALSE]
                /\ obs' = [obs EXCEPT ![t] = Observe(t, arg[t])]
                /\ cleared' = cleared \ {arg[t]}
                /\ pc' = [pc EXCEPT ![t] = "get_unlock"]
                /\ UNCHANGED <<bitmap, present, won, any_set, set_segs>>
           ELSE /\ bitmap' = [bitmap EXCEPT ![t] = b]
                /\ pc' = [pc EXCEPT ![t] = "get_load"]
                /\ UNCHANGED <<ret, hist, obs>>
    /\ UNCHANGED <<root, arg, drv, shim>>

get_load(t) ==
    /\ pc[t] = "get_load"
    /\ LET e == expand_index(arg[t])
       IN  ret' = [ret EXCEPT ![t] = TestMask(leafmem[bitmap[t]][e[2]], Mask(e[3]))]
    /\ obs' = [obs EXCEPT ![t] = Observe(t, arg[t])]
    /\ cleared' = cleared \ {arg[t]}
    /\ pc' = [pc EXCEPT ![t] = "get_unlock"]
    /\ UNCHANGED <<root, lock, arg, bitmap, drv, present, won, any_set, set_segs, shim>>

get_unlock(t) ==
    /\ pc[t] = "get_unlock"
    /\ unlock(t)
    /\ Return(t)
    /\ UNCHANGED <<root, drv, hist, shim>>

\* ------------------------------------------------------------ AllocMap::test_and_clear

\* A caller passes key k to test_and_clear and goes on at c when it returns
invoke_tac(t, k, c) ==
    /\ cont' = [cont EXCEPT ![t] = c]
    /\ arg' = [arg EXCEPT ![t] = k]
    /\ pc' = [pc EXCEPT ![t] = "tac_lookup"]
    /\ UNCHANGED <<root, lock, bitmap, ret, hist, obs>>

CallTac(t, k) ==
    /\ calls < MaxCalls
    /\ calls' = calls + 1
    /\ pc[t] = "idle"
    /\ invoke_tac(t, k, "idle")
    /\ UNCHANGED <<prog, walk, probe, heap>>

\* root.read() and get_bitmap; on None test_and_clear returns false
tac_lookup(t) ==
    /\ pc[t] = "tac_lookup"
    /\ rdlock(t)
    /\ LET b == get_bitmap(expand_index(arg[t])[1])
       IN  IF b = 0
           THEN /\ ret' = [ret EXCEPT ![t] = FALSE]
                /\ obs' = [obs EXCEPT ![t] = Observe(t, arg[t])]
                /\ present' = present \ {arg[t]}
                /\ cleared' = cleared \ {arg[t]}
                /\ pc' = [pc EXCEPT ![t] = "tac_unlock"]
                /\ UNCHANGED <<bitmap, won, any_set, set_segs>>
           ELSE /\ bitmap' = [bitmap EXCEPT ![t] = b]
                /\ pc' = [pc EXCEPT ![t] = "tac_fetch_nand"]
                /\ UNCHANGED <<ret, hist, obs>>
    /\ UNCHANGED <<root, arg, drv, shim>>

tac_fetch_nand(t) ==
    /\ pc[t] = "tac_fetch_nand"
    /\ LET e    == expand_index(arg[t])
           mask == Mask(e[3])
           old  == leafmem[bitmap[t]][e[2]]
           r    == TestMask(old, mask)
       IN  /\ leafmem' = [leafmem EXCEPT ![bitmap[t]][e[2]] = FetchNand(old, mask)]
           /\ ret' = [ret EXCEPT ![t] = r]
           /\ won' = IF r THEN won \cup {arg[t]} ELSE won
           /\ cleared' = IF r THEN cleared \cup {arg[t]} ELSE cleared \ {arg[t]}
    /\ obs' = [obs EXCEPT ![t] = Observe(t, arg[t])]
    /\ present' = present \ {arg[t]}
    /\ pc' = [pc EXCEPT ![t] = "tac_unlock"]
    /\ UNCHANGED <<leaves_some, leaves, num_leaves, munmap_calls, lock, arg, bitmap,
                   drv, any_set, set_segs, shim>>

tac_unlock(t) ==
    /\ pc[t] = "tac_unlock"
    /\ unlock(t)
    /\ Return(t)
    /\ UNCHANGED <<root, drv, hist, shim>>

\* ------------------------------------------------------------ AllocMap::set

\* A caller passes key k to set and goes on at c when set returns
invoke_set(t, k, c) ==
    /\ cont' = [cont EXCEPT ![t] = c]
    /\ arg' = [arg EXCEPT ![t] = k]
    /\ any_set' = TRUE
    /\ pc' = [pc EXCEPT ![t] = "set_lookup"]
    /\ UNCHANGED <<root, lock, bitmap, ret, present, won, cleared, set_segs, obs>>

CallSet(t, k) ==
    /\ calls < MaxCalls
    /\ calls' = calls + 1
    /\ pc[t] = "idle"
    /\ invoke_set(t, k, "idle")
    /\ UNCHANGED <<prog, walk, probe, heap>>

\* root.read() and get_bitmap
set_lookup(t) ==
    /\ pc[t] = "set_lookup"
    /\ rdlock(t)
    /\ LET b == get_bitmap(expand_index(arg[t])[1])
       IN  IF b = 0
           THEN /\ pc' = [pc EXCEPT ![t] = "set_drop_read"]
                /\ UNCHANGED bitmap
           ELSE /\ bitmap' = [bitmap EXCEPT ![t] = b]
                /\ pc' = [pc EXCEPT ![t] = "set_fetch_or"]
    /\ UNCHANGED <<root, arg, ret, drv, hist, obs, shim>>

\* The shared hold is kept while the exclusive one is requested
set_keep_read(t) ==
    /\ pc[t] = "set_drop_read"
    /\ pc' = [pc EXCEPT ![t] = "set_wrlock"]
    /\ UNCHANGED <<root, lock, arg, bitmap, ret, drv, hist, obs, shim>>

\* drop(root_read): the shared hold is released before the exclusive one is
\* requested
set_drop_read(t) ==
    /\ pc[t] = "set_drop_read"
    /\ unlock(t)
    /\ pc' = [pc EXCEPT ![t] = "set_wrlock"]
    /\ UNCHANGED <<root, arg, bitmap, ret, drv, hist, obs, shim>>

set_wrlock(t) ==
    /\ pc[t] = "set_wrlock"
    /\ wrlock(t)
    /\ pc' = [pc EXCEPT ![t] = "set_insert"]
    /\ UNCHANGED <<root, arg, bitmap, ret, drv, hist, obs, shim>>

set_insert(t) ==
    /\ pc[t] = "set_insert"
    /\ LET r == get_or_insert_bitmap(expand_index(arg[t])[1])
       IN  /\ leaves_some' = TRUE
           /\ leaves' = r.leaves
           /\ num_leaves' = r.num_leaves
           /\ leafmem' = r.leafmem
           /\ munmap_calls' = r.munmap_calls
           /\ bitmap' = [bitmap EXCEPT ![t] = r.leaf]
    /\ pc' = [pc EXCEPT ![t] = "set_fetch_or"]
    /\ UNCHANGED <<lock, arg, ret, drv, hist, obs, shim>>

set_fetch_or(t) ==
    /\ pc[t] = "set_fetch_or"
    /\ LET e == expand_index(arg[t])
       IN  leafmem' = [leafmem EXCEPT ![bitmap[t]][e[2]] = FetchOr(@, Mask(e[3]))]
    /\ obs' = [obs EXCEPT ![t] = Observe(t, arg[t])]
    /\ present' = present \cup {arg[t]}
    /\ won' = won \ {arg[t]}
    /\ cleared' = cleared \ {arg[t]}
    /\ pc' = [pc EXCEPT ![t] = "set_unlock"]
    /\ UNCHANGED <<leaves_some, leaves, num_leaves, munmap_calls, lock, arg, bitmap,
                   ret, drv, any_set, set_segs, shim>>

set_unlock(t) ==
    /\ pc[t] = "set_unlock"
    /\ unlock(t)
    /\ Return(t)
    /\ set_segs' = set_segs \cup {expand_index(arg[t])[1]}
    /\ UNCHANGED <<root, drv, present, won, cleared, any_set, shim>>

\* ------------------------------------------------------------ specification

Next ==
    \/ \E t \in Threads, k \in Keys : CallGet(t, k)
    \/ \E t \in Threads : get_lookup(t)
    \/ \E t \in Threads : get_load(t)
    \/ \E t \in Threads : get_unlock(t)
    \/ \E t \in Threads, k \in Keys : CallTac(t, k)
    \/ \E t \in Threads : tac_lookup(t)
    \/ \E t \in Threads : tac_fetch_nand(t)
    \/ \E t \in Threads : tac_unlock(t)
    \/ \E t \in Threads, k \in Keys : CallSet(t, k)
    \/ \E t \in Threads : set_lookup(t)
    \/ \E t \in Threads : set_drop_read(t)
    \/ \E t \in Threads : set_wrlock(t)
    \/ \E t \in Threads : set_insert(t)
    \/ \E t \in Threads : set_fetch_or(t)
    \/ \E t \in Threads : set_unlock(t)

Spec == Init /\ [][Next]_vars

\* The steps of thread t inside an operation of the registry
Step(t) ==
    \/ get_lookup(t) \/ get_load(t) \/ get_unlock(t)
    \/ tac_lookup(t) \/ tac_fetch_nand(t) \/ tac_unlock(t)
    \/ set_lookup(t) \/ set_drop_read(t) \/ set_wrlock(t)
    \/ set_insert(t) \/ set_fetch_or(t) \/ set_unlock(t)

\* The threads of SpecFair make FairCalls calls on the keys of two Leaves
NextFair ==
    \/ calls < FairCalls /\ \E t \in Threads, k \in FairKeys : CallGet(t, k)
    \/ \E t \in Threads : get_lookup(t)
    \/ \E t \in Threads : get_load(t)
    \/ \E t \in Threads : get_unlock(t)
    \/ calls < FairCalls /\ \E t \in Threads, k \in FairKeys : CallTac(t, k)
    \/ \E t \in Threads : tac_lookup(t)
    \/ \E t \in Threads : tac_fetch_nand(t)
    \/ \E t \in Threads : tac_unlock(t)
    \/ calls < FairCalls /\ \E t \in Threads, k \in FairKeys : CallSet(t, k)
    \/ \E t \in Threads : set_lookup(t)
    \/ \E t \in Threads : set_drop_read(t)
    \/ \E t \in Threads : set_wrlock(t)
    \/ \E t \in Threads : set_insert(t)
    \/ \E t \in Threads : set_fetch_or(t)
    \/ \E t \in Threads : set_unlock(t)

\* The registry under fair scheduling: a thread that can go on inside an
\* operation eventually does
SpecFair == Init /\ [][NextFair]_vars /\ \A t \in Threads : WF_vars(Step(t))

\* ------------------------------------------------------------ SpecS5

\* Scenario S5: every thread calls set(k) and then test_and_clear(k) for each
\* key k of S5Keys in turn. prog counts the calls the thread has made.
S5CallSet(t) ==
    /\ prog[t] < 2 * Len(S5Keys)
    /\ prog[t] % 2 = 0
    /\ pc[t] = "idle"
    /\ invoke_set(t, S5Keys[(prog[t] \div 2) + 1], "idle")
    /\ prog' = [prog EXCEPT ![t] = @ + 1]
    /\ UNCHANGED <<calls, walk, probe, heap>>

S5CallTac(t) ==
    /\ prog[t] < 2 * Len(S5Keys)
    /\ prog[t] % 2 = 1
    /\ pc[t] = "idle"
    /\ invoke_tac(t, S5Keys[(prog[t] \div 2) + 1], "idle")
    /\ prog' = [prog EXCEPT ![t] = @ + 1]
    /\ UNCHANGED <<calls, walk, probe, heap>>

NextS5 ==
    \/ \E t \in Threads : S5CallSet(t)
    \/ \E t \in Threads : S5CallTac(t)
    \/ \E t \in Threads : tac_lookup(t)
    \/ \E t \in Threads : tac_fetch_nand(t)
    \/ \E t \in Threads : tac_unlock(t)
    \/ \E t \in Threads : set_lookup(t)
    \/ \E t \in Threads : set_drop_read(t)
    \/ \E t \in Threads : set_wrlock(t)
    \/ \E t \in Threads : set_insert(t)
    \/ \E t \in Threads : set_fetch_or(t)
    \/ \E t \in Threads : set_unlock(t)

SpecS5 == Init /\ [][NextS5]_vars

\* Every thread has finished the program of SpecS5
S5Done == \A t \in Threads : pc[t] = "idle" /\ prog[t] = 2 * Len(S5Keys)

\* ------------------------------------------------------------ SpecGrow

\* Two threads call set on the keys of a walk over the root segments, each
\* taking the next key of the walk when it is idle.
GrowThreads == {t \in Threads : t <= 2}

InitGrow ==
    /\ INIT
    /\ InitThreads
    /\ walk \in {[start |-> a, stride |-> d, i |-> 0] :
                    a \in GrowStarts, d \in GrowStrides}
    /\ probe = NoProbe

GrowCallSet(t) ==
    /\ walk.i < 2 * NumSegs
    /\ pc[t] = "idle"
    /\ invoke_set(t, GrowKey(walk, walk.i), "idle")
    /\ walk' = [walk EXCEPT !.i = @ + 1]
    /\ UNCHANGED <<calls, prog, probe, heap>>

NextGrow ==
    \/ \E t \in GrowThreads : GrowCallSet(t)
    \/ \E t \in GrowThreads : set_lookup(t)
    \/ \E t \in GrowThreads : set_drop_read(t)
    \/ \E t \in GrowThreads : set_wrlock(t)
    \/ \E t \in GrowThreads : set_insert(t)
    \/ \E t \in GrowThreads : set_fetch_or(t)
    \/ \E t \in GrowThreads : set_unlock(t)

SpecGrow == InitGrow /\ [][NextGrow]_vars

\* No call is in progress
AllIdle == \A t \in Threads : pc[t] = "idle"

\* The smallest power of two that is >= n
RECURSIVE CeilPow2From(_, _)
CeilPow2From(p, n) == IF p >= n THEN p ELSE CeilPow2From(2 * p, n)
CeilPow2(n) == CeilPow2From(1, n)

\* ------------------------------------------------------------ shim: words

\* A usize below 2^31 as a word, and a word below 2^31 as a number
ToBits(n) == {b \in 0..30 : (n \div (2 ^ b)) % 2 = 1}
FromBits(w) ==
    LET f[b \in 0..31] == IF b = 31 THEN 0
                          ELSE (IF b \in w THEN 2 ^ b ELSE 0) + f[b + 1]
    IN  f[0]

Xor(a, b) == (a \ b) \cup (b \ a)
rotate_left(w, n) == {(b + n) % USIZE_BITS : b \in w}
rotate_right(w, n) == {(b + USIZE_BITS - n) % USIZE_BITS : b \in w}

\* fn mangle
mangle(x, key) == Xor(rotate_left(x, 13), key)

\* fn demangle
demangle(x, key) == rotate_right(Xor(x, key), 13)

is_power_of_two(w) == Cardinality(w) = 1

\* w < n, for a number n below 2^31
WordLess(w, n) == (\A b \in w : b <= 30) /\ FromBits(w) < n

\* fn outer_layout_and_margin, for layouts whose sizes do not overflow
outer_layout_and_margin(size, align) ==
    LET margin == Max(MIN_MARGIN, align)
    IN  [margin |-> margin, size |-> size + margin * 2, align |-> Max(align, MIN_ALIGN)]

\* AllocInfo::user_ptr
user_ptr(outer, margin) == outer + margin

\* ------------------------------------------------------------ shim: from_user_ptr_unchecked

ErrInfo(e) == [ok |-> FALSE, err |-> e, margin |-> 0, user_size |-> {}, outer |-> 0]
OkInfo(margin, user_size, outer) ==
    [ok |-> TRUE, err |-> "", margin |-> margin, user_size |-> user_size, outer |-> outer]

\* AllocInfo::from_user_ptr_unchecked: the results the read of the metadata in
\* front of p can have. Metadata that was never written, or that the wrapped
\* allocator has overwritten, reads as any value.
from_user_ptr_unchecked(p) ==
    IF ~mem[p].init
    THEN {ErrInfo("metadata corrupted")}
             \cup {OkInfo(m, {}, p - m) : m \in {MIN_MARGIN, 2 * MIN_MARGIN}}
    ELSE LET margin == demangle(mem[p].margin, Xor(ToBits(p), KEY_MARGIN))
             size   == demangle(mem[p].size, Xor(ToBits(p), KEY_SIZE))
         IN  IF ~is_power_of_two(margin) \/ WordLess(margin, MIN_MARGIN)
             THEN {ErrInfo("metadata corrupted")}
             ELSE IF ~WordLess(margin, p + 1)
             THEN {OkInfo(0, size, -1)}
             ELSE IF FromBits(margin) = p
             THEN {ErrInfo("null")}
             ELSE {OkInfo(FromBits(margin), size, p - FromBits(margin))}

\* ------------------------------------------------------------ FatAlloc::allocate

CallAllocate(t, layout) ==
    /\ pc[t] = "idle"
    /\ calls < MaxCalls
    /\ calls' = calls + 1
    /\ sh' = [sh EXCEPT ![t] = [NoLocals EXCEPT !.size = layout.size,
                                                !.align = layout.align]]
    /\ pc' = [pc EXCEPT ![t] = "alloc_outer"]
    /\ UNCHANGED <<root, lock, arg, bitmap, ret, prog, walk, probe, hist, obs, cont,
                   heap_live, mem, live_user, bad_forward>>

\* outer_layout_and_margin and CAlloc::allocate of the wrapped allocator, which
\* hands out a block that is not live, or fails
alloc_outer(t) ==
    /\ pc[t] = "alloc_outer"
    /\ LET ol == outer_layout_and_margin(sh[t].size, sh[t].align)
       IN  \/ /\ pc' = [pc EXCEPT ![t] = "idle"]
              /\ sh' = [sh EXCEPT ![t] = NoLocals]
              /\ UNCHANGED <<heap_live, live_user>>
           \/ \E o \in OuterPtrs \ heap_live :
                 /\ o % ol.align = 0
                 /\ heap_live' = heap_live \cup {o}
                 /\ live_user' = live_user \cup {user_ptr(o, ol.margin)}
                 /\ sh' = [sh EXCEPT ![t].outer = o, ![t].margin = ol.margin,
                                     ![t].ptr = user_ptr(o, ol.margin)]
                 /\ pc' = [pc EXCEPT ![t] = "mark_set"]
    /\ UNCHANGED <<root, lock, arg, bitmap, ret, drv, hist, obs, cont, mem, bad_forward>>

\* AllocInfo::mark: "Mark the allocation"
mark_set(t) ==
    /\ pc[t] = "mark_set"
    /\ is_power_of_two(ToBits(sh[t].margin)) /\ sh[t].margin >= MIN_MARGIN
    /\ sh[t].ptr % MIN_ALIGN = 0
    /\ invoke_set(t, sh[t].ptr \div MIN_ALIGN, "mark_meta")
    /\ UNCHANGED <<drv, heap>>

\* AllocInfo::mark: "Write the metadata"
mark_meta(t) ==
    /\ pc[t] = "mark_meta"
    /\ LET p == sh[t].ptr
       IN  mem' = [mem EXCEPT ![p] =
                      [@ EXCEPT !.init = TRUE,
                                !.margin = mangle(ToBits(sh[t].margin),
                                                  Xor(ToBits(p), KEY_MARGIN)),
                                !.size = mangle(ToBits(sh[t].size),
                                                Xor(ToBits(p), KEY_SIZE))]]
    /\ pc' = [pc EXCEPT ![t] = "mark_canary"]
    /\ UNCHANGED <<root, lock, arg, bitmap, ret, drv, hist, obs, cont, sh, heap_live,
                   live_user, bad_forward>>

\* AllocInfo::mark: "Place a heap canary"; allocate then returns the user pointer
mark_canary(t) ==
    /\ pc[t] = "mark_canary"
    /\ LET p == sh[t].ptr
       IN  mem' = [mem EXCEPT ![p].canary = mangle(ToBits(p), KEY_CANARY)]
    /\ pc' = [pc EXCEPT ![t] = "idle"]
    /\ sh' = [sh EXCEPT ![t] = NoLocals]
    /\ ret' = [ret EXCEPT ![t] = FALSE]
    /\ UNCHANGED <<root, lock, arg, bitmap, drv, hist, obs, cont, heap_live,
                   live_user, bad_forward>>

\* ------------------------------------------------------------ FatAlloc::deallocate

CallDeallocate(t, p) ==
    /\ pc[t] = "idle"
    /\ calls < MaxCalls
    /\ calls' = calls + 1
    /\ sh' = [sh EXCEPT ![t] = [NoLocals EXCEPT !.ptr = p]]
    /\ pc' = [pc EXCEPT ![t] = "unmark_check"]
    /\ UNCHANGED <<root, lock, arg, bitmap, ret, prog, walk, probe, hist, obs, cont,
                   heap_live, mem, live_user, bad_forward>>

\* AllocInfo::from_user_ptr_and_unmark: a misaligned pointer is rejected, for an
\* aligned one test_and_clear is called
unmark_check(t) ==
    /\ pc[t] = "unmark_check"
    /\ IF sh[t].ptr % MIN_ALIGN # 0
       THEN /\ pc' = [pc EXCEPT ![t] = "idle"]
            /\ sh' = [sh EXCEPT ![t] = NoLocals]
            /\ UNCHANGED <<root, lock, arg, bitmap, ret, hist, obs, cont, heap_live,
                           mem, live_user, bad_forward>>
       ELSE /\ invoke_tac(t, sh[t].ptr \div MIN_ALIGN, "unmark_read")
            /\ UNCHANGED heap
    /\ UNCHANGED drv

\* AllocInfo::from_user_ptr_and_unmark after test_and_clear: a pointer that is
\* not registered is rejected, for a registered one the metadata is read; on
\* Err deallocate warns and returns
unmark_read(t) ==
    /\ pc[t] = "unmark_read"
    /\ IF ~ret[t]
       THEN /\ pc' = [pc EXCEPT ![t] = "idle"]
            /\ sh' = [sh EXCEPT ![t] = NoLocals]
       ELSE \E r \in from_user_ptr_unchecked(sh[t].ptr) :
               IF r.ok
               THEN /\ sh' = [sh EXCEPT ![t].outer = r.outer, ![t].margin = r.margin]
                    /\ pc' = [pc EXCEPT ![t] = "dealloc_forward"]
               ELSE /\ pc' = [pc EXCEPT ![t] = "idle"]
                    /\ sh' = [sh EXCEPT ![t] = NoLocals]
    /\ ret' = [ret EXCEPT ![t] = FALSE]
    /\ cont' = [cont EXCEPT ![t] = "idle"]
    /\ UNCHANGED <<root, lock, arg, bitmap, drv, hist, obs, heap_live, mem,
                   live_user, bad_forward>>

\* The memory after the wrapped allocator has taken the block at o back: as it
\* was, or with the metadata in the block overwritten
AfterFree(o) ==
    {mem, [p \in UserAddrs |->
              IF (p - MIN_MARGIN) \in Block(o) THEN Uninit ELSE mem[p]]}

\* CAlloc::deallocate(&self.alloc, outer_ptr)
dealloc_forward(t) ==
    /\ pc[t] = "dealloc_forward"
    /\ heap_live' = heap_live \ {sh[t].outer}
    /\ mem' \in AfterFree(sh[t].outer)
    /\ bad_forward' = (bad_forward \/ sh[t].ptr \notin live_user)
    /\ live_user' = live_user \ {sh[t].ptr}
    /\ pc' = [pc EXCEPT ![t] = "idle"]
    /\ sh' = [sh EXCEPT ![t] = NoLocals]
    /\ UNCHANGED <<root, lock, arg, bitmap, ret, drv, hist, obs, cont>>

\* ------------------------------------------------------------ SpecShim

NextShim ==
    \/ \E t \in Threads, l \in Layouts : CallAllocate(t, l)
    \/ \E t \in Threads : alloc_outer(t)
    \/ \E t \in Threads : mark_set(t)
    \/ \E t \in Threads : mark_meta(t)
    \/ \E t \in Threads : mark_canary(t)
    \/ \E t \in Threads, p \in PtrInputs : CallDeallocate(t, p)
    \/ \E t \in Threads : unmark_check(t)
    \/ \E t \in Threads : unmark_read(t)
    \/ \E t \in Threads : dealloc_forward(t)
    \/ \E t \in Threads : tac_lookup(t)
    \/ \E t \in Threads : tac_fetch_nand(t)
    \/ \E t \in Threads : tac_unlock(t)
    \/ \E t \in Threads : set_lookup(t)
    \/ \E t \in Threads : set_drop_read(t)
    \/ \E t \in Threads : set_wrlock(t)
    \/ \E t \in Threads : set_insert(t)
    \/ \E t \in Threads : set_fetch_or(t)
    \/ \E t \in Threads : set_unlock(t)

SpecShim == Init /\ [][NextShim]_vars

\* ------------------------------------------------------------ FatAlloc::reallocate

CallReallocate(t, p, new_size) ==
    /\ pc[t] = "idle"
    /\ calls < MaxCalls
    /\ calls' = calls + 1
    /\ sh' = [sh EXCEPT ![t] = [NoLocals EXCEPT !.ptr = p, !.size = new_size]]
    /\ pc' = [pc EXCEPT ![t] = "realloc_check"]
    /\ UNCHANGED <<root, lock, arg, bitmap, ret, prog, walk, probe, hist, obs, cont,
                   heap_live, mem, live_user, bad_forward>>

\* AllocInfo::from_user_ptr_and_unmark, called by reallocate: a misaligned
\* pointer is rejected and reallocate returns None, for an aligned one
\* test_and_clear is called
realloc_check(t) ==
    /\ pc[t] = "realloc_check"
    /\ IF sh[t].ptr % MIN_ALIGN # 0
       THEN /\ pc' = [pc EXCEPT ![t] = "idle"]
            /\ sh' = [sh EXCEPT ![t] = NoLocals]
            /\ UNCHANGED <<root, lock, arg, bitmap, ret, hist, obs, cont, heap_live,
                           mem, live_user, bad_forward>>
       ELSE /\ invoke_tac(t, sh[t].ptr \div MIN_ALIGN, "realloc_read")
            /\ UNCHANGED heap
    /\ UNCHANGED drv

\* AllocInfo::from_user_ptr_and_unmark after test_and_clear; on Err reallocate
\* warns and returns None
realloc_read(t) ==
    /\ pc[t] = "realloc_read"
    /\ IF ~ret[t]
       THEN /\ pc' = [pc EXCEPT ![t] = "idle"]
            /\ sh' = [sh EXCEPT ![t] = NoLocals]
       ELSE \E r \in from_user_ptr_unchecked(sh[t].ptr) :
               IF r.ok
               THEN /\ sh' = [sh EXCEPT ![t].outer = r.outer, ![t].margin = r.margin]
                    /\ pc' = [pc EXCEPT ![t] = "realloc_outer"]
               ELSE /\ pc' = [pc EXCEPT ![t] = "idle"]
                    /\ sh' = [sh EXCEPT ![t] = NoLocals]
    /\ ret' = [ret EXCEPT ![t] = FALSE]
    /\ cont' = [cont EXCEPT ![t] = "idle"]
    /\ UNCHANGED <<root, lock, arg, bitmap, drv, hist, obs, heap_live, mem,
                   live_user, bad_forward>>

\* Layout::from_size_align(size, align).ok() is Some: the size, rounded up to
\* the alignment, does not exceed isize::MAX
from_size_align_ok(size, align) == size >= 0

\* The Ok arm of reallocate up to the call of mark. The two layout computations
\* or CAlloc::reallocate of the wrapped allocator may fail, and reallocate
\* returns None; otherwise the wrapped allocator resizes the block in place or
\* moves it, with what it holds, to a block that is not live.
realloc_outer(t) ==
    /\ pc[t] = "realloc_outer"
    /\ LET p == sh[t].ptr
           o == sh[t].outer
       IN  \/ /\ ~from_size_align_ok(sh[t].size, sh[t].margin)
              /\ pc' = [pc EXCEPT ![t] = "idle"]
              /\ sh' = [sh EXCEPT ![t] = NoLocals]
              /\ UNCHANGED <<heap_live, mem, live_user, bad_forward>>
           \/ /\ from_size_align_ok(sh[t].size, sh[t].margin)
              /\ outer_layout_and_margin(sh[t].size, sh[t].margin).margin = sh[t].margin
              /\ pc' = [pc EXCEPT ![t] = "idle"]
              /\ sh' = [sh EXCEPT ![t] = NoLocals]
              /\ UNCHANGED <<heap_live, mem, live_user, bad_forward>>
           \/ /\ from_size_align_ok(sh[t].size, sh[t].margin)
              /\ outer_layout_and_margin(sh[t].size, sh[t].margin).margin = sh[t].margin
              /\ \E o2 \in (OuterPtrs \ heap_live) \cup ({o} \cap OuterPtrs) :
                    LET p2 == user_ptr(o2, sh[t].margin)
                    IN  /\ heap_live' = (heap_live \ {o}) \cup {o2}
                        /\ live_user' = (live_user \ {p}) \cup {p2}
                        /\ bad_forward' = (bad_forward \/ p \notin live_user)
                        /\ \E m \in (IF o2 = o THEN {mem} ELSE AfterFree(o)) :
                              mem' = [m EXCEPT ![p2] = mem[p]]
                        /\ sh' = [sh EXCEPT ![t].outer = o2, ![t].ptr = p2]
                        /\ pc' = [pc EXCEPT ![t] = "mark_set"]
    /\ UNCHANGED <<root, lock, arg, bitmap, ret, drv, hist, obs, cont>>

\* ------------------------------------------------------------ FatAlloc::allocation_usable_size

CallUsableSize(t, p) ==
    /\ pc[t] = "idle"
    /\ calls < MaxCalls
    /\ calls' = calls + 1
    /\ sh' = [sh EXCEPT ![t] = [NoLocals EXCEPT !.ptr = p]]
    /\ pc' = [pc EXCEPT ![t] = "usable_check"]
    /\ UNCHANGED <<root, lock, arg, bitmap, ret, prog, walk, probe, hist, obs, cont,
                   heap_live, mem, live_user, bad_forward>>

\* AllocInfo::from_user_ptr: a misaligned pointer is rejected and
\* allocation_usable_size returns 0, for an aligned one get is called
usable_check(t) ==
    /\ pc[t] = "usable_check"
    /\ IF sh[t].ptr % MIN_ALIGN # 0
       THEN /\ pc' = [pc EXCEPT ![t] = "idle"]
            /\ sh' = [sh EXCEPT ![t] = NoLocals]
            /\ UNCHANGED <<root, lock, arg, bitmap, ret, hist, obs, cont, heap_live,
                           mem, live_user, bad_forward>>
       ELSE /\ invoke_get(t, sh[t].ptr \div MIN_ALIGN, "usable_read")
            /\ UNCHANGED heap
    /\ UNCHANGED drv

\* AllocInfo::from_user_ptr after get: a pointer that is not registered is
\* rejected; for a registered one the metadata is read, on Ok
\* allocation_usable_size returns user_size, and on Err the map_err closure
\* calls set(key)
usable_read(t) ==
    /\ pc[t] = "usable_read"
    /\ IF ~ret[t]
       THEN /\ pc' = [pc EXCEPT ![t] = "idle"]
            /\ sh' = [sh EXCEPT ![t] = NoLocals]
            /\ ret' = [ret EXCEPT ![t] = FALSE]
            /\ cont' = [cont EXCEPT ![t] = "idle"]
            /\ UNCHANGED <<root, lock, arg, bitmap, hist, obs>>
       ELSE \E r \in from_user_ptr_unchecked(sh[t].ptr) :
               IF r.ok
               THEN /\ pc' = [pc EXCEPT ![t] = "idle"]
                    /\ sh' = [sh EXCEPT ![t] = NoLocals]
                    /\ ret' = [ret EXCEPT ![t] = FALSE]
                    /\ cont' = [cont EXCEPT ![t] = "idle"]
                    /\ UNCHANGED <<root, lock, arg, bitmap, hist, obs>>
               ELSE /\ invoke_set(t, sh[t].ptr \div MIN_ALIGN, "usable_err")
                    /\ UNCHANGED sh
    /\ UNCHANGED <<drv, heap_live, mem, live_user, bad_forward>>

\* allocation_usable_size warns and returns 0
usable_err(t) ==
    /\ pc[t] = "usable_err"
    /\ pc' = [pc EXCEPT ![t] = "idle"]
    /\ sh' = [sh EXCEPT ![t] = NoLocals]
    /\ ret' = [ret EXCEPT ![t] = FALSE]
    /\ cont' = [cont EXCEPT ![t] = "idle"]
    /\ UNCHANGED <<root, lock, arg, bitmap, drv, hist, obs, heap_live, mem,
                   live_user, bad_forward>>

\* ------------------------------------------------------------ SpecFat

\* The four operations of FatAlloc, called by the threads in any order
NextFat ==
    \/ NextShim
    \/ \E t \in Threads, p \in FatPtrs, n \in ReallocSizes : CallReallocate(t, p, n)
    \/ \E t \in Threads : realloc_check(t)
    \/ \E t \in Threads : realloc_read(t)
    \/ \E t \in Threads : realloc_outer(t)
    \/ \E t \in Threads, p \in FatPtrs : CallUsableSize(t, p)
    \/ \E t \in Threads : usable_check(t)
    \/ \E t \in Threads : usable_read(t)
    \/ \E t \in Threads : usable_err(t)
    \/ \E t \in Threads : get_lookup(t)
    \/ \E t \in Threads : get_load(t)
    \/ \E t \in Threads : get_unlock(t)

SpecFat == Init /\ [][NextFat]_vars

\* ------------------------------------------------------------ claims on SpecShim

\* C1: deallocate forwards a pointer to the wrapped allocator only if allocate
\* has returned it and it has not been forwarded since, so that no allocation is
\* forwarded twice and no address that was never allocated is forwarded.
C1_ForwardOnlyLive == ~bad_forward

\* The metadata and the canary in front of the user pointer of thread t's
\* allocation are those that mark writes for it
MetadataWritten(t) ==
    LET p == sh[t].ptr
    IN  /\ mem[p].init
        /\ mem[p].margin = mangle(ToBits(sh[t].margin), Xor(ToBits(p), KEY_MARGIN))
        /\ mem[p].size = mangle(ToBits(sh[t].size), Xor(ToBits(p), KEY_SIZE))
        /\ mem[p].canary = mangle(ToBits(p), KEY_CANARY)

\* C11: while mark's call of set(key) is in progress, and from then on until
\* allocate returns, the metadata of the pointer (mangled margin, mangled size,
\* canary) is written: the key is never registered ahead of its metadata.
C11_SetAfterMetadata ==
    \A t \in Threads :
        (/\ cont[t] = "mark_meta"
         /\ pc[t] \in {"set_lookup", "set_drop_read", "set_wrlock", "set_insert",
                       "set_fetch_or", "set_unlock"})
        => MetadataWritten(t)

\* ------------------------------------------------------------ claims on Spec

\* C2: among the test_and_clear(k) calls that follow a set(k), the first returns
\* true and no other does until k is set again.
C2_OneWinner ==
    \A t \in Threads :
        pc[t] = "tac_unlock" =>
            /\ obs[t].present => ret[t] = TRUE
            /\ obs[t].won => ret[t] = FALSE

\* C3: a test_and_clear(k) of a key that is unset returns false and leaves the
\* registry (the directory and every bit of every Leaf) as it was.
C3_ClearUnsetIsNoop ==
    [][\A t \in Threads :
          (/\ pc[t] \in {"tac_lookup", "tac_fetch_nand"}
           /\ pc'[t] = "tac_unlock"
           /\ ~BitVal(arg[t]))
          => (ret'[t] = FALSE /\ root' = root)]_vars

\* C4: a test_and_clear(k) of a set key returns true, and a get(k) that follows
\* it with no operation on k in between returns false.
C4_ClearThenGet ==
    \A t \in Threads :
        /\ (pc[t] = "tac_unlock" /\ obs[t].bit) => ret[t] = TRUE
        /\ (pc[t] = "get_unlock" /\ obs[t].after_clear) => ret[t] = FALSE

\* C5: a step of an operation on key k1 leaves the value get(k2) returns
\* unchanged for every other key k2.
C5_Independence ==
    [][\A t \in Threads : \A k2 \in Keys :
          (pc[t] # "idle" /\ pc'[t] # pc[t] /\ arg[t] # k2)
          => (BitVal(k2)' = BitVal(k2))]_vars

\* C6: once set(k) has taken effect and no test_and_clear(k) has since, the bit
\* of k is set and every get(k) returns true.
C6_SetIdempotent ==
    /\ \A k \in present : BitVal(k)
    /\ \A t \in Threads : (pc[t] = "get_unlock" /\ obs[t].present) => ret[t] = TRUE

\* A get(k) returns true for a present key k while another key has been cleared
\* and both Leaves exist.
C6_Witness ==
    \E t \in Threads :
        /\ pc[t] = "get_unlock" /\ obs[t].present /\ ret[t] = TRUE
        /\ won \ {arg[t]} # {}
        /\ num_leaves >= 1

\* C7: as long as set has not been called, get and test_and_clear return false
\* and the directory is empty: no slice, no entry, no Leaf.
C7_EmptyUntilSet ==
    ~any_set =>
        /\ ~leaves_some /\ leaves = <<>> /\ num_leaves = 0 /\ leafmem = <<>>
        /\ \A k \in Keys : ~BitVal(k)
        /\ \A t \in Threads : pc[t] \in {"get_unlock", "tac_unlock"} => ret[t] = FALSE

\* Before any set, a get and a test_and_clear have both returned.
C7_Witness ==
    /\ ~any_set
    /\ \E t1, t2 \in Threads : pc[t1] = "get_unlock" /\ pc[t2] = "tac_unlock"

\* C8: get and test_and_clear return what contains and remove return on a set
\* of keys updated where each operation takes effect.
C8_Linearizable ==
    \A t \in Threads :
        pc[t] \in {"get_unlock", "tac_unlock"} => ret[t] = obs[t].present

\* ------------------------------------------------------------ claims on SpecS5

\* C9: once every thread has called set(k) and then test_and_clear(k) for each
\* key k, get(k) returns false for each of these keys.
C9_AllClearedAtEnd ==
    S5Done => \A j \in 1..Len(S5Keys) : ~BitVal(S5Keys[j])

\* ------------------------------------------------------------ claims on SpecGrow

\* C10 as stated: once set has returned for keys of M >= 1 distinct root
\* segments, the capacity is the smallest power of two >= max(8, M).
C10_CapacityFrom8 ==
    (AllIdle /\ set_segs # {}) =>
        Len(leaves) = CeilPow2(Max(8, Cardinality(set_segs)))

\* C10 as amended: the capacity is 0 before the first set, and once set has
\* returned for keys of M >= 1 distinct root segments it is the smallest power
\* of two >= max(16, M).
C10_CapacityFrom16 ==
    AllIdle =>
        /\ num_leaves = Cardinality(set_segs)
        /\ Len(leaves) = IF set_segs = {} THEN 0
                         ELSE CeilPow2(Max(16, Cardinality(set_segs)))

\* The directory has grown twice: 17 segments are in a slice of 32 slots.
C10_Witness ==
    AllIdle /\ Cardinality(set_segs) = 17 /\ Len(leaves) = 32 /\ Len(munmap_calls) = 2

\* C12: the directory holds num_leaves <= capacity entries; slots
\* [0, num_leaves) are populated and strictly ascending by root segment (hence
\* without a duplicate), slots [num_leaves, capacity) are empty. This holds in
\* every state, so in every state a holder of the Gate can see, whichever
\* position an insertion went to and whether or not the slice grew.
C12_DirectoryInvariant ==
    /\ num_leaves <= Len(leaves)
    /\ ~leaves_some => Len(leaves) = 0
    /\ \A j \in 1..num_leaves : leaves[j].some
    /\ \A j \in 1..(num_leaves - 1) : leaves[j].root_i < leaves[j + 1].root_i
    /\ \A j \in (num_leaves + 1)..Len(leaves) : leaves[j] = NoneSlot

\* The slice has grown to 32 slots, and Leaves were inserted in front of all
\* older entries, between two older entries, and behind all older entries (a
\* Leaf's index tells its age).
C12_Witness ==
    /\ AllIdle /\ Len(leaves) = 32 /\ num_leaves >= 17
    /\ leaves[1].leaf > leaves[2].leaf
    /\ leaves[num_leaves].leaf > leaves[num_leaves - 1].leaf
    /\ \E j \in 2..(num_leaves - 1) :
           leaves[j].leaf > leaves[j - 1].leaf /\ leaves[j].leaf > leaves[j + 1].leaf

\* ------------------------------------------------------------ more claims on Spec

\* The root segments the directory has an entry for
DirSegs == {leaves[j].root_i : j \in 1..num_leaves}

\* The root segments on which a set has performed its get_or_insert_bitmap, or
\* found the Leaf under the shared hold
InsertedSegs ==
    set_segs \cup {expand_index(arg[t])[1] :
                      t \in {u \in Threads : pc[u] \in {"set_fetch_or", "set_unlock"}}}

\* C13: the directory has exactly one entry, with a Leaf of its own, for each
\* root segment on which a set has performed its insertion, and no other entry
\* (get and test_and_clear add none), also when several threads miss the same
\* absent segment under the shared hold and take the exclusive hold in turn;
\* and the bit of every key that was set and not cleared since is still set.
C13_OneLeafPerSegment ==
    /\ DirSegs = InsertedSegs
    /\ num_leaves = Cardinality(InsertedSegs)
    /\ Len(leafmem) = num_leaves
    /\ Cardinality({leaves[j].leaf : j \in 1..num_leaves}) = num_leaves
    /\ \A k \in present : BitVal(k)

\* A thread holds the Gate exclusively after its get_or_insert_bitmap (so it
\* missed under the shared hold) while another key of the same segment is
\* already set: it found the Leaf an earlier writer had installed.
C13_Witness ==
    \E t \in Threads :
        /\ writer = t /\ pc[t] = "set_fetch_or"
        /\ num_leaves = 1 /\ Len(leafmem) = 1
        /\ \E k \in present :
               k # arg[t] /\ expand_index(k)[1] = expand_index(arg[t])[1]

\* The directory: Root::leaves, Root::num_leaves, the slices released and the
\* number of Leaves allocated
Directory == <<leaves_some, leaves, num_leaves, munmap_calls, Len(leafmem)>>

\* C14: the directory changes only in a step of the thread that holds the Gate
\* exclusively, while no other thread holds it in any mode; a thread reads the
\* directory (root.read() and get_bitmap) only where no thread holds the Gate
\* exclusively, and holds the Gate, at least in shared mode, wherever it uses
\* the Leaf it obtained from the directory.
C14_GateDiscipline ==
    /\ [](writer # 0 => readers = {})
    /\ [](\A t \in Threads :
            /\ pc[t] \in {"get_load", "get_unlock", "tac_fetch_nand", "tac_unlock",
                          "set_drop_read"}
               => (t \in readers /\ writer = 0)
            /\ pc[t] \in {"set_fetch_or", "set_unlock"}
               => (t \in readers \/ writer = t)
            /\ pc[t] = "set_insert" => writer = t)
    /\ [][Directory' # Directory =>
             (/\ writer # 0 /\ writer' = writer
              /\ readers = {} /\ readers' = {}
              /\ pc[writer] = "set_insert")]_vars
    /\ [][\A t \in Threads :
             (pc[t] \in {"get_lookup", "tac_lookup", "set_lookup"} /\ pc'[t] # pc[t])
             => (writer = 0 /\ t \in readers')]_vars

\* A thread has inserted a Leaf in front of an older entry under the exclusive
\* hold while another thread waits for the Gate.
C14_Witness ==
    \E t, u \in Threads :
        /\ writer = t /\ pc[t] = "set_fetch_or"
        /\ num_leaves = 2 /\ leaves[1].leaf = 2
        /\ pc[u] \in {"get_lookup", "tac_lookup", "set_lookup", "set_wrlock"}

\* ------------------------------------------------------------ claims on SpecFair

\* Thread t holds the Gate
Holds(t) == t \in readers \/ writer = t

\* C15: a thread holds the Gate at each of its releases and holds nothing once
\* its operation has returned or while it waits for the Gate (so each hold is
\* released once on every path, and the exclusive hold is never requested by
\* a holder of the shared one); under fair scheduling every operation that was
\* called returns.
C15_ReleaseAndProgress ==
    /\ [](\A t \in Threads :
            /\ pc[t] \in {"idle", "get_lookup", "tac_lookup", "set_lookup", "set_wrlock"}
               => ~Holds(t)
            /\ pc[t] \in {"get_unlock", "tac_unlock", "set_unlock", "set_drop_read"}
               => Holds(t)
            /\ ~(t \in readers /\ writer = t))
    /\ \A t \in Threads : (pc[t] # "idle") ~> (pc[t] = "idle")

\* A get is about to release its hold on the path of the absent Leaf while a
\* set, having dropped its shared hold, waits for the exclusive one.
C15_Witness ==
    \E t, u \in Threads :
        /\ pc[t] = "get_unlock" /\ bitmap[t] = 0 /\ t \in readers
        /\ pc[u] = "set_wrlock" /\ ~Holds(u)

\* ------------------------------------------------------------ more claims on SpecGrow

\* C16: a step that inserts a Leaf, growing the slice or not, keeps every
\* entry the directory had (each root segment maps to the Leaf it mapped to)
\* and every bit of every Leaf there was, so that get(k) is unchanged for each
\* key k outside the segment that was inserted.
C16_InsertKeepsLeaves ==
    [][(num_leaves' # num_leaves \/ Len(leaves') # Len(leaves)) =>
          /\ \A s \in DirSegs : get_bitmap(s)' = get_bitmap(s) /\ get_bitmap(s) # 0
          /\ \A b \in 1..Len(leafmem) : leafmem'[b] = leafmem[b]
          /\ \A k \in AllKeys :
                 expand_index(k)[1] \notin (DirSegs' \ DirSegs)
                 => (BitVal(k)' = BitVal(k))]_vars

\* The insertion that grew the slice from 16 to 32 slots put its Leaf in front
\* of older entries, and the keys of the older entries are still set.
C16_Witness ==
    /\ Len(leaves) = 32 /\ num_leaves = 17
    /\ \E j \in 1..16 : leaves[j].leaf = 17
    /\ \E t \in Threads : pc[t] = "set_fetch_or" /\ bitmap[t] = 17
    /\ \E j \in 1..17 : BitVal(leaves[j].root_i * LEAF_LEN)

\* C17: every munmap call releases a slice that was in use, and the length it
\* passes is the size of that slice in bytes, capacity * size_of(slot); no
\* release is attempted for the empty slice the directory starts with.
C17_ReleaseWholeArray ==
    \A j \in 1..Len(munmap_calls) :
        /\ munmap_calls[j].cap # 0
        /\ munmap_calls[j].len = munmap_calls[j].cap * ENTRY_SIZE

\* ------------------------------------------------------------ SpecKeys

\* Keys of the full width of usize are words, like every usize that does not
\* fit a number of the model. KeyBits are the bit positions the keys of SpecKeys
\* are made of: the ends of the bit offset (0, 5), of the word offset (6, 22)
\* and of the root segment (23, 63), and the two sides of the u32 boundary.
KeyBits == {0, 5, 6, 22, 23, 31, 32, 63}
WideKeys == SUBSET KeyBits

\* The number of binary digits below the 1 of a power of two
RECURSIVE Log2(_)
Log2(n) == IF n <= 1 THEN 0 ELSE 1 + Log2(n \div 2)

\* A cast that keeps the low four bits only
as_low4(w) == {b \in w : b < 4}

\* `i as u32` of a usize
as_u32(w) == {b \in w : b < 32}

\* w % n, w / n and the wrapping w * n of a word w, for a power of two n
rem_pow2(w, n) == {b \in w : b < Log2(n)}
div_pow2(w, n) == {b - Log2(n) : b \in {c \in w : c >= Log2(n)}}
mul_pow2(w, n) == {b + Log2(n) : b \in {c \in w : c + Log2(n) < USIZE_BITS}}

\* AllocMap::expand_index of a key of the full width
expand_index_wide(i) ==
    LET bit       == rem_pow2(as_u32(i), USIZE_BITS)
        bitmap_i0 == div_pow2(i, USIZE_BITS)
        root_i    == div_pow2(bitmap_i0, LEAF_LEN \div USIZE_BITS)
        bitmap_i  == rem_pow2(bitmap_i0, LEAF_LEN \div USIZE_BITS)
    IN  <<root_i, bitmap_i, bit>>

InitKeys ==
    /\ INIT
    /\ InitThreads
    /\ walk = NoWalk
    /\ probe \in {[NoProbe EXCEPT !.k1 = a, !.k2 = b] : a, b \in WideKeys}

\* expand_index is applied to the first key, then to the second
ApplyExpandIndex ==
    /\ probe.n < 2
    /\ probe' = IF probe.n = 0
                THEN [probe EXCEPT !.e1 = expand_index_wide(probe.k1), !.n = 1]
                ELSE [probe EXCEPT !.e2 = expand_index_wide(probe.k2), !.n = 2]
    /\ UNCHANGED <<root, lock, pc, arg, bitmap, ret, calls, prog, walk, hist, obs, shim>>

NextKeys == ApplyExpandIndex

SpecKeys == InitKeys /\ [][NextKeys]_vars

\* (root_segment, word_offset, bit_offset) is the decomposition of the key i:
\* the three parts are i mod WORD_BITS, (i div WORD_BITS) mod (LEAF_BITS /
\* WORD_BITS) and (i div WORD_BITS) div (LEAF_BITS / WORD_BITS), the offsets
\* are below their bounds, and the parts add up to i
Decomposes(i, e) ==
    /\ e[3] = rem_pow2(i, USIZE_BITS)
    /\ e[2] = rem_pow2(div_pow2(i, USIZE_BITS), LEAF_LEN \div USIZE_BITS)
    /\ e[1] = div_pow2(div_pow2(i, USIZE_BITS), LEAF_LEN \div USIZE_BITS)
    /\ \A b \in e[3] : b < Log2(USIZE_BITS)
    /\ \A b \in e[2] : b < Log2(LEAF_LEN \div USIZE_BITS)
    /\ mul_pow2(e[1], LEAF_LEN) \cap mul_pow2(e[2], USIZE_BITS) = {}
    /\ mul_pow2(e[1], LEAF_LEN) \cup mul_pow2(e[2], USIZE_BITS) \cup e[3] = i

\* For a key that fits a number, expand_index on numbers yields the same parts,
\* and they are those of the claim's arithmetic
DecomposesAsNumber(i, e) ==
    (\A b \in i : b <= 30) =>
        LET n == FromBits(i)
            x == expand_index(n)
        IN  /\ x = <<FromBits(e[1]), FromBits(e[2]), FromBits(e[3])>>
            /\ x[3] = n % USIZE_BITS
            /\ x[2] = (n \div USIZE_BITS) % (LEAF_LEN \div USIZE_BITS)
            /\ x[1] = (n \div USIZE_BITS) \div (LEAF_LEN \div USIZE_BITS)
            /\ x[2] < LEAF_LEN \div USIZE_BITS /\ x[3] < USIZE_BITS
            /\ n = x[1] * LEAF_LEN + x[2] * USIZE_BITS + x[3]

\* C18: expand_index(i) is the exact decomposition of i into root segment,
\* word offset and bit offset, for keys below and above 2^32, and two distinct
\* keys never have the same (segment, word, bit) triple.
C18_KeyDecomposition ==
    /\ probe.n >= 1 =>
           Decomposes(probe.k1, probe.e1) /\ DecomposesAsNumber(probe.k1, probe.e1)
    /\ probe.n = 2 =>
           /\ Decomposes(probe.k2, probe.e2)
           /\ probe.k1 # probe.k2 => probe.e1 # probe.e2

\* expand_index was applied to two keys that differ only above 2^32, one of
\* them with bit 63 set, and both with the highest bit offset and word offset.
C18_Witness ==
    /\ probe.n = 2
    /\ probe.k1 = {5, 22, 32, 63} /\ probe.k2 = {5, 22, 63}
    /\ probe.e1[3] = {5} /\ probe.e1[2] = {16} /\ probe.e1[1] = {9, 40}

\* ------------------------------------------------------------ claims on SpecFat

\* C19: where reallocate of a registered pointer, whose block is live, returns
\* None because a layout computation or the wrapped allocator's reallocate
\* failed, the pointer is registered.
C19_FailedReallocKeepsMark ==
    [][\A t \in Threads :
          (/\ pc[t] = "realloc_outer" /\ pc'[t] = "idle"
           /\ sh[t].ptr \in live_user /\ sh[t].outer \in heap_live)
          => BitVal(sh[t].ptr \div MIN_ALIGN)']_vars

\* Thread t is inside allocation_usable_size
InUsableSize(t) ==
    \/ pc[t] \in {"usable_check", "usable_read", "usable_err"}
    \/ /\ pc[t] \in {"get_lookup", "get_load", "get_unlock", "set_lookup",
                     "set_drop_read", "set_wrlock", "set_insert", "set_fetch_or",
                     "set_unlock"}
       /\ cont[t] \in {"usable_read", "usable_err"}

\* C20: no step of allocation_usable_size changes which pointers are
\* registered.
C20_UsableSizeIsPure ==
    [][\A t \in Threads :
          (InUsableSize(t) /\ pc'[t] # pc[t])
          => \A p \in UserAddrs : BitVal(p \div MIN_ALIGN)' = BitVal(p \div MIN_ALIGN)]_vars

====
